---- MODULE Spec2Model ----
(***************************************************************************)
(* Model of src/tools/hwp_table_tools.py: the HwpTableTools adapter class  *)
(* and the free function parse_table_data.                                  *)
(*                                                                         *)
(* Python values are records [t, s, items]: t is the Python type, s the    *)
(* text of a str (a sequence of fragments whose concatenation is the       *)
(* string) or the literal of a number/bool, items the elements of a list.  *)
(* A JSON text is a str whose fragments are the JSON tokens.               *)
(***************************************************************************)
EXTENDS Integers, Sequences, FiniteSets, TLC

(* ------------------------------ bounds --------------------------------- *)
\* largest row/column index a caller passes
MaxIndex == 2
\* most rows of a table payload
MaxRows == 2
\* most cells of a payload row
MaxCols == 2
\* most cells of a table payload, all rows together
MaxCells == 3
\* nesting depth at which the JSON decoder's recursion is exhausted
\* (the interpreter's recursion limit, scaled down)
RecursionLimit == 3

(* --------------------------- Python values ----------------------------- *)
PyNone == [t |-> "NoneType", s |-> <<>>, items |-> <<>>]
PyStr(frags) == [t |-> "str", s |-> frags, items |-> <<>>]
PyNum(lit) == [t |-> "int", s |-> <<lit>>, items |-> <<>>]
PyTrue == [t |-> "bool", s |-> <<"True">>, items |-> <<>>]
PyFalse == [t |-> "bool", s |-> <<"False">>, items |-> <<>>]
PyList(elems) == [t |-> "list", s |-> <<>>, items |-> elems]

\* bool(v): the truth value Python's `not v` / `if v` tests
truthy(v) ==
    CASE v.t = "NoneType" -> FALSE
      [] v.t = "bool" -> v = PyTrue
      [] v.t = "int" -> v.s # <<"0">>
      [] v.t = "str" -> v.s # <<>>
      [] v.t = "list" -> v.items # <<>>
      [] OTHER -> TRUE

isinstance_list(v) == v.t = "list"

RECURSIVE join_repr(_, _)
RECURSIVE repr(_)
\* repr(v) as fragments
repr(v) ==
    CASE v.t = "NoneType" -> <<"None">>
      [] v.t = "str" -> <<"'">> \o v.s \o <<"'">>
      [] v.t = "list" -> <<"[">> \o join_repr(v.items, 1) \o <<"]">>
      [] OTHER -> v.s
join_repr(elems, i) ==
    IF i > Len(elems) THEN <<>>
    ELSE IF i = Len(elems) THEN repr(elems[i])
    ELSE repr(elems[i]) \o <<", ">> \o join_repr(elems, i + 1)

\* str(v): a str is itself, None is 'None', True is 'True', a number its literal
str(v) ==
    IF v.t = "str" THEN v ELSE PyStr(repr(v))

\* str(type(v)), as interpolated into a message
type_name(v) == "<class '" \o v.t \o "'>"

(* ------------------------------- JSON ---------------------------------- *)
\* the scalar tokens of a JSON text and the Python value each decodes to
ScalarOf ==
    [tok \in {"\"a\"", "\"b\"", "null", "true", "1"} |->
        CASE tok = "\"a\"" -> PyStr(<<"a">>)
          [] tok = "\"b\"" -> PyStr(<<"b">>)
          [] tok = "null" -> PyNone
          [] tok = "true" -> PyTrue
          [] tok = "1" -> PyNum("1")]

ScanFail(why) == [st |-> why, val |-> PyNone, next |-> 0]
ScanOk(v, n) == [st |-> "ok", val |-> v, next |-> n]

RECURSIVE scan_once(_, _, _)
RECURSIVE scan_array(_, _, _, _)
\* the decoder's value scanner: st is "ok", "JSONDecodeError" or "RecursionError"
scan_once(toks, i, depth) ==
    IF i > Len(toks) THEN ScanFail("JSONDecodeError")
    ELSE IF toks[i] \in DOMAIN ScalarOf THEN ScanOk(ScalarOf[toks[i]], i + 1)
    ELSE IF toks[i] = "[" THEN
        IF depth + 1 > RecursionLimit THEN ScanFail("RecursionError")
        ELSE IF i + 1 <= Len(toks) /\ toks[i + 1] = "]" THEN ScanOk(PyList(<<>>), i + 2)
        ELSE scan_array(toks, i + 1, depth + 1, <<>>)
    ELSE ScanFail("JSONDecodeError")
scan_array(toks, i, depth, acc) ==
    LET r == scan_once(toks, i, depth) IN
    IF r.st # "ok" THEN r
    ELSE IF r.next > Len(toks) THEN ScanFail("JSONDecodeError")
    ELSE IF toks[r.next] = "]" THEN ScanOk(PyList(Append(acc, r.val)), r.next + 1)
    ELSE IF toks[r.next] = "," THEN scan_array(toks, r.next + 1, depth, Append(acc, r.val))
    ELSE ScanFail("JSONDecodeError")

\* json.loads(data): [exc, val]; exc is "" when val is the decoded value
json_loads(data) ==
    IF data.t # "str" THEN [exc |-> "TypeError", val |-> PyNone]
    ELSE LET r == scan_once(data.s, 1, 0) IN
         IF r.st # "ok" THEN [exc |-> r.st, val |-> PyNone]
         ELSE IF r.next # Len(data.s) + 1 THEN [exc |-> "JSONDecodeError", val |-> PyNone]
         ELSE [exc |-> "", val |-> r.val]

\* str(e) of the exception json.loads raised
json_error_text(exc) == <<exc, " while decoding">>

RECURSIVE dumps_items(_, _)
RECURSIVE dumps(_)
\* the token sequence that encodes a value (the caller's side of the JSON format)
dumps(v) ==
    CASE v.t = "NoneType" -> <<"null">>
      [] v.t = "bool" -> <<"true">>
      [] v.t = "int" -> v.s
      [] v.t = "str" -> <<"\"" \o v.s[1] \o "\"">>
      [] v.t = "list" -> <<"[">> \o dumps_items(v.items, 1) \o <<"]">>
dumps_items(elems, i) ==
    IF i > Len(elems) THEN <<>>
    ELSE IF i = Len(elems) THEN dumps(elems[i])
    ELSE dumps(elems[i]) \o <<",">> \o dumps_items(elems, i + 1)

(* ------------------------ calls and results ---------------------------- *)
\* what a controller method does when called: return a value or raise
Returns(v) == [kind |-> "return", val |-> v, msg |-> <<>>]
Raises(m) == [kind |-> "raise", val |-> PyNone, msg |-> m]

\* one call made by the adapter: on a controller (target is the controller
\* object) or on the json library (target is JsonLib)
JsonLib == [t |-> "module", s |-> <<"json">>, items |-> <<>>]
Call(target, method, ints, vals, out) ==
    [target |-> target, method |-> method, ints |-> ints, vals |-> vals, out |-> out]

\* `return <str>` after the calls in trace
Ret(trace, frags) ==
    [trace |-> trace, result |-> [kind |-> "return", val |-> PyStr(frags), exc |-> ""]]
\* `return <value>` after the calls in trace
RetVal(trace, v) ==
    [trace |-> trace, result |-> [kind |-> "return", val |-> v, exc |-> ""]]
\* an exception leaves the function
Escapes(trace, exc) ==
    [trace |-> trace, result |-> [kind |-> "raise", val |-> PyNone, exc |-> exc]]

\* "Error: HWP Controller is not set"
NotSetMsg == <<"Error: ", "HWP Controller is ", "not set">>
\* f"Error: {str(e)}"
ErrorMsg(m) == <<"Error: ">> \o m

(* --------------------------- HwpTableTools ----------------------------- *)
insert_table(self, rows, cols, out) ==
    IF ~truthy(self) THEN Ret(<<>>, NotSetMsg)
    ELSE LET ev == Call(self, "insert_table", <<rows, cols>>, <<>>, out) IN
         IF out.kind = "raise" THEN Ret(<<ev>>, ErrorMsg(out.msg))
         ELSE IF truthy(out.val)
              THEN Ret(<<ev>>, <<"Table inserted with ", ToString(rows), " rows and ",
                                 ToString(cols), " columns">>)
              ELSE Ret(<<ev>>, <<"Error: ", "Failed to insert table">>)

\* set_cell_text reporting a False from the controller the way insert_table does
set_cell_text_error_prefixed(self, row, col, text, out) ==
    IF ~truthy(self) THEN Ret(<<>>, NotSetMsg)
    ELSE LET ev == Call(self, "fill_table_cell", <<row, col>>, <<text>>, out) IN
         IF out.kind = "raise" THEN Ret(<<ev>>, ErrorMsg(out.msg))
         ELSE IF truthy(out.val)
              THEN Ret(<<ev>>, <<"cell(", ToString(row), ", ", ToString(col), ") text input done">>)
              ELSE Ret(<<ev>>, <<"Error: ", "cell(", ToString(row), ", ", ToString(col),
                                 ") text input failed">>)

\* success: "셀({row}, {col})에 텍스트 입력 완료", failure: "... 입력 실패"
set_cell_text(self, row, col, text, out) ==
    IF ~truthy(self) THEN Ret(<<>>, NotSetMsg)
    ELSE LET ev == Call(self, "fill_table_cell", <<row, col>>, <<text>>, out) IN
         IF out.kind = "raise" THEN Ret(<<ev>>, ErrorMsg(out.msg))
         ELSE IF truthy(out.val)
              THEN Ret(<<ev>>, <<"cell(", ToString(row), ", ", ToString(col), ") text input done">>)
              ELSE Ret(<<ev>>, <<"cell(", ToString(row), ", ", ToString(col), ") text input failed">>)

\* merge_cells converting the caller's 1-based numbers to 0-based ones
merge_cells_zero_based(self, start_row, start_col, end_row, end_col, out) ==
    IF ~truthy(self) THEN Ret(<<>>, NotSetMsg)
    ELSE LET ev == Call(self, "merge_table_cells",
                        <<start_row - 1, start_col - 1, end_row - 1, end_col - 1>>, <<>>, out) IN
         IF out.kind = "raise" THEN Ret(<<ev>>, ErrorMsg(out.msg))
         ELSE IF truthy(out.val)
              THEN Ret(<<ev>>, <<"cell merge done (", ToString(start_row), ",", ToString(start_col),
                                 ") - (", ToString(end_row), ",", ToString(end_col), ")">>)
              ELSE Ret(<<ev>>, <<"cell merge failed">>)

\* success: "셀 병합 완료 (r,c) - (r,c)", failure: "셀 병합 실패"
merge_cells(self, start_row, start_col, end_row, end_col, out) ==
    IF ~truthy(self) THEN Ret(<<>>, NotSetMsg)
    ELSE LET ev == Call(self, "merge_table_cells",
                        <<start_row, start_col, end_row, end_col>>, <<>>, out) IN
         IF out.kind = "raise" THEN Ret(<<ev>>, ErrorMsg(out.msg))
         ELSE IF truthy(out.val)
              THEN Ret(<<ev>>, <<"cell merge done (", ToString(start_row), ",", ToString(start_col),
                                 ") - (", ToString(end_row), ",", ToString(end_col), ")">>)
              ELSE Ret(<<ev>>, <<"cell merge failed">>)

\* get_cell_text without the `if not self.hwp_controller` guard: the attribute
\* lookup on None raises AttributeError, which the handler turns into a string
get_cell_text_unguarded(self, row, col, out) ==
    IF ~truthy(self)
    THEN Ret(<<>>, ErrorMsg(<<"'NoneType' object has no attribute 'get_table_cell_text'">>))
    ELSE LET ev == Call(self, "get_table_cell_text", <<row, col>>, <<>>, out) IN
         IF out.kind = "raise" THEN Ret(<<ev>>, ErrorMsg(out.msg))
         ELSE RetVal(<<ev>>, out.val)

get_cell_text(self, row, col, out) ==
    IF ~truthy(self) THEN Ret(<<>>, NotSetMsg)
    ELSE LET ev == Call(self, "get_table_cell_text", <<row, col>>, <<>>, out) IN
         IF out.kind = "raise" THEN Ret(<<ev>>, ErrorMsg(out.msg))
         ELSE RetVal(<<ev>>, out.val)

\* the decoded rows handed on without the conversion to strings
str_rows_unconverted(data_array) == data_array

\* [[str(cell) for cell in row] for row in data_array]
str_rows(data_array) ==
    PyList([i \in 1..Len(data_array.items) |->
        PyList([j \in 1..Len(data_array.items[i].items) |->
            str(data_array.items[i].items[j])])])

\* create_table_with_data decoding and validating the data before it inserts
\* the table, and inserting nothing when the data is rejected
create_table_with_data_validating_first(self, rows, cols, data, has_header, out1, out2) ==
    IF ~truthy(self) THEN Ret(<<>>, NotSetMsg)
    ELSE LET ev1 == Call(self, "insert_table", <<rows, cols>>, <<>>, out1)
             size == <<ToString(rows), "x", ToString(cols), " size)">>
             ld == json_loads(data)
             evj == Call(JsonLib, "loads", <<>>, <<data>>,
                         IF ld.exc = "" THEN Returns(ld.val)
                         ELSE Raises(json_error_text(ld.exc)))
             ev2 == Call(self, "fill_table_with_data", <<1, 1>>,
                         <<str_rows(ld.val), has_header>>, out2)
             inserted(pre) ==
                 IF out1.kind = "raise" THEN Ret(pre \o <<ev1>>, ErrorMsg(out1.msg))
                 ELSE IF ~truthy(out1.val)
                 THEN Ret(pre \o <<ev1>>, <<"Error: ", "Failed to create table">>)
                 ELSE Ret(pre \o <<ev1>>, <<"table created (">> \o size)
         IN
         IF ~truthy(data) THEN inserted(<<>>)
         ELSE IF ld.exc # "" THEN Ret(<<evj>>, <<"Error: ">> \o json_error_text(ld.exc))
         ELSE IF \/ ~isinstance_list(ld.val)
                 \/ Len(ld.val.items) = 0
                 \/ ~(\A i \in 1..Len(ld.val.items) : isinstance_list(ld.val.items[i]))
         THEN Ret(<<evj>>, <<"Error: ", "data is not a 2D array">>)
         ELSE IF out1.kind = "raise" \/ ~truthy(out1.val) THEN inserted(<<evj>>)
         ELSE IF out2.kind = "raise"
         THEN Ret(<<evj, ev1, ev2>>,
                  <<"table created but error during data input: ">> \o out2.msg)
         ELSE IF truthy(out2.val)
         THEN Ret(<<evj, ev1, ev2>>, <<"table created and data input done (">> \o size)
         ELSE Ret(<<evj, ev1, ev2>>, <<"table created but data input failed">>)

\* messages: "표 생성 완료 ({rows}x{cols} 크기)", "표는 생성되었으나 ..." (table
\* was created but ...), "표 생성 및 데이터 입력 완료 ({rows}x{cols} 크기)"
create_table_with_data(self, rows, cols, data, has_header, out1, out2) ==
    IF ~truthy(self) THEN Ret(<<>>, NotSetMsg)
    ELSE LET ev1 == Call(self, "insert_table", <<rows, cols>>, <<>>, out1)
             size == <<ToString(rows), "x", ToString(cols), " size)">>
         IN
         IF out1.kind = "raise" THEN Ret(<<ev1>>, ErrorMsg(out1.msg))
         ELSE IF ~truthy(out1.val) THEN Ret(<<ev1>>, <<"Error: ", "Failed to create table">>)
         ELSE IF ~truthy(data) THEN Ret(<<ev1>>, <<"table created (">> \o size)
         ELSE IF data.t \notin {"str", "list"}
              THEN \* data[:100] raises TypeError, caught by the inner handler
                   Ret(<<ev1>>, <<"table created but error during data input: ",
                                  "object is not subscriptable">>)
         ELSE LET ld == json_loads(data)
                  evj == Call(JsonLib, "loads", <<>>, <<data>>,
                              IF ld.exc = "" THEN Returns(ld.val)
                              ELSE Raises(json_error_text(ld.exc)))
                  data_array == ld.val
              IN
              IF ld.exc = "JSONDecodeError"
              THEN Ret(<<ev1, evj>>, <<"table created but JSON parse error: ">>
                                        \o json_error_text(ld.exc))
              ELSE IF ld.exc # ""
              THEN Ret(<<ev1, evj>>, <<"table created but error during data input: ">>
                                        \o json_error_text(ld.exc))
              ELSE IF ~isinstance_list(data_array)
              THEN Ret(<<ev1, evj>>, <<"table created but data is not a list, received type: ",
                                       type_name(data_array)>>)
              ELSE IF Len(data_array.items) = 0
              THEN Ret(<<ev1, evj>>, <<"table created but data list is empty">>)
              ELSE IF ~(\A i \in 1..Len(data_array.items) : isinstance_list(data_array.items[i]))
              THEN Ret(<<ev1, evj>>, <<"table created but data is not a 2D array">>)
              ELSE LET str_data_array == str_rows(data_array)
                       ev2 == Call(self, "fill_table_with_data", <<1, 1>>,
                                   <<str_data_array, has_header>>, out2)
                   IN
                   IF out2.kind = "raise"
                   THEN Ret(<<ev1, evj, ev2>>,
                            <<"table created but error during data input: ">> \o out2.msg)
                   ELSE IF truthy(out2.val)
                   THEN Ret(<<ev1, evj, ev2>>, <<"table created and data input done (">> \o size)
                   ELSE Ret(<<ev1, evj, ev2>>, <<"table created but data input failed">>)

\* the elements `for row in data_list` visits (the strs of this model are
\* built from one-character fragments)
iter(v) ==
    IF v.t = "list" THEN v.items ELSE [i \in 1..Len(v.s) |-> PyStr(<<v.s[i]>>)]

\* the row conversion walking the row from its end
str_or_empty_row_reversed(row) ==
    PyList([j \in 1..Len(row.items) |->
        IF row.items[Len(row.items) + 1 - j] # PyNone
        THEN str(row.items[Len(row.items) + 1 - j]) ELSE PyStr(<<>>)])

\* [str(cell) if cell is not None else "" for cell in row]
str_or_empty_row(row) ==
    PyList([j \in 1..Len(row.items) |->
        IF row.items[j] # PyNone THEN str(row.items[j]) ELSE PyStr(<<>>)])

\* success: "표 데이터 입력 완료", failure: "표 데이터 입력 실패"
fill_table_with_data(self, data_list, start_row, start_col, has_header, out) ==
    IF ~truthy(self) THEN Ret(<<>>, NotSetMsg)
    ELSE IF ~truthy(data_list) THEN Ret(<<>>, <<"Error: ", "Data is required">>)
    ELSE IF data_list.t \notin {"list", "str"}
         THEN \* len(data_list) raises TypeError
              Ret(<<>>, ErrorMsg(<<"object of type '", data_list.t, "' has no len()">>))
    ELSE LET rows == iter(data_list)
             processed_data ==
                 PyList([i \in 1..Len(rows) |->
                     IF ~isinstance_list(rows[i])
                     THEN str_or_empty_row(PyList(<<str(rows[i])>>))
                     ELSE str_or_empty_row(rows[i])])
             ev == Call(self, "fill_table_with_data", <<start_row, start_col>>,
                        <<processed_data, has_header>>, out)
         IN
         IF out.kind = "raise" THEN Ret(<<ev>>, ErrorMsg(out.msg))
         ELSE IF truthy(out.val) THEN Ret(<<ev>>, <<"table data input done">>)
         ELSE Ret(<<ev>>, <<"table data input failed">>)

\* the body shared by the nine named-action methods
run_named_action(self, action, done, failed, out) ==
    IF ~truthy(self) THEN Ret(<<>>, NotSetMsg)
    ELSE LET ev == Call(self, "run_action", <<>>, <<PyStr(<<action>>)>>, out) IN
         IF out.kind = "raise" THEN Ret(<<ev>>, ErrorMsg(out.msg))
         ELSE IF truthy(out.val) THEN Ret(<<ev>>, <<done>>)
         ELSE Ret(<<ev>>, <<failed>>)

\* "왼쪽 칼럼 삽입 완료" / "왼쪽 칼럼 삽입 실패"
insert_left_column(self, out) ==
    run_named_action(self, "TableInsertLeftColumn",
                     "left column insert done", "left column insert failed", out)
\* "오른쪽 칼럼 삽입 완료" / "오른쪽 칼럼 삽입 실패"
insert_right_column(self, out) ==
    run_named_action(self, "TableInsertRightColumn",
                     "right column insert done", "right column insert failed", out)
\* "위쪽 행 삽입 완료" / "위쪽 행 삽입 실패"
insert_upper_row(self, out) ==
    run_named_action(self, "TableInsertUpperRow",
                     "upper row insert done", "upper row insert failed", out)
\* "아래쪽 행 삽입 완료" / "아래쪽 행 삽입 실패"
insert_lower_row(self, out) ==
    run_named_action(self, "TableInsertLowerRow",
                     "lower row insert done", "lower row insert failed", out)
\* move_to_left_cell firing the action of move_to_right_cell
move_to_left_cell_wrong_action(self, out) ==
    run_named_action(self, "TableRightCell",
                     "move to left cell done", "move to left cell failed", out)
\* "왼쪽 셀로 이동 완료" / "왼쪽 셀로 이동 실패"
move_to_left_cell(self, out) ==
    run_named_action(self, "TableLeftCell",
                     "move to left cell done", "move to left cell failed", out)
\* "오른쪽 셀로 이동 완료" / "오른쪽 셀로 이동 실패"
move_to_right_cell(self, out) ==
    run_named_action(self, "TableRightCell",
                     "move to right cell done", "move to right cell failed", out)
\* "위쪽 셀로 이동 완료" / "위쪽 셀로 이동 실패"
move_to_upper_cell(self, out) ==
    run_named_action(self, "TableUpperCell",
                     "move to upper cell done", "move to upper cell failed", out)
\* "아래쪽 셀로 이동 완료" / "아래쪽 셀로 이동 실패"
move_to_lower_cell(self, out) ==
    run_named_action(self, "TableLowerCell",
                     "move to lower cell done", "move to lower cell failed", out)
\* "표 병합 완료" / "표 병합 실패"
merge_tables(self, out) ==
    run_named_action(self, "TableMergeTable",
                     "table merge done", "table merge failed", out)

(* -------------------------- parse_table_data --------------------------- *)
(* -------------------------- parse_table_data --------------------------- *)
\* parse_table_data rejecting a list that has a row that is not a list
parse_table_data_rejecting_stray_rows(data_str) ==
    LET ld == json_loads(data_str)
        evj == Call(JsonLib, "loads", <<>>, <<data_str>>,
                    IF ld.exc = "" THEN Returns(ld.val)
                    ELSE Raises(json_error_text(ld.exc)))
        data == ld.val
    IN
    IF ld.exc = "JSONDecodeError" THEN RetVal(<<evj>>, PyList(<<>>))
    ELSE IF ld.exc # "" THEN Escapes(<<evj>>, ld.exc)
    ELSE IF ~isinstance_list(data) THEN RetVal(<<evj>>, PyList(<<>>))
    ELSE IF ~(\A i \in 1..Len(data.items) : isinstance_list(data.items[i]))
    THEN RetVal(<<evj>>, PyList(<<>>))
    ELSE RetVal(<<evj>>,
                PyList([i \in 1..Len(data.items) |-> str_or_empty_row(data.items[i])]))

parse_table_data(data_str) ==
    LET ld == json_loads(data_str)
        evj == Call(JsonLib, "loads", <<>>, <<data_str>>,
                    IF ld.exc = "" THEN Returns(ld.val)
                    ELSE Raises(json_error_text(ld.exc)))
        data == ld.val
    IN
    IF ld.exc = "JSONDecodeError" THEN RetVal(<<evj>>, PyList(<<>>))
    ELSE IF ld.exc # "" THEN Escapes(<<evj>>, ld.exc)
    ELSE IF ~isinstance_list(data) THEN RetVal(<<evj>>, PyList(<<>>))
    ELSE RetVal(<<evj>>,
                PyList([i \in 1..Len(data.items) |->
                    IF isinstance_list(data.items[i])
                    THEN str_or_empty_row(data.items[i])
                    ELSE PyList(<<str(data.items[i])>>)]))

(* ------------------------------ inputs --------------------------------- *)
\* row/column numbers a caller passes (1-based)
Index == 1..MaxIndex
\* the (rows, cols) and (start_row, start_col) pairs passed along with table
\* data: the two numbers differ, in either order
Positions == {<<1, MaxIndex>>, <<MaxIndex, 1>>}
\* controller objects; ControllerA and ControllerB are distinct instances
ControllerA == [t |-> "HwpController", s |-> <<"A">>, items |-> <<>>]
ControllerB == [t |-> "HwpController", s |-> <<"B">>, items |-> <<>>]
Controllers == {PyNone, ControllerA, ControllerB}
\* str(e) of the exceptions a controller method raises
ExcMsgs == {<<"boom">>}
\* outcomes of the controller methods that return a bool
BoolOutcomes == {Returns(PyTrue), Returns(PyFalse)} \cup {Raises(m) : m \in ExcMsgs}
\* texts get_table_cell_text returns, and texts written into a cell
Texts == {PyStr(<<"a">>), PyStr(<<>>)}
TextOutcomes == {Returns(x) : x \in Texts} \cup {Raises(m) : m \in ExcMsgs}
Flags == {PyTrue, PyFalse}

\* decoded table payloads: cells, rows (a list of cells or a stray scalar),
\* lists of rows, and values that are not a list at all
Cells == {PyStr(<<"a">>), PyStr(<<"b">>), PyNone}
SeqsUpTo(S, n) == UNION {[1..k -> S] : k \in 0..n}
ListRows == {PyList(r) : r \in SeqsUpTo(Cells, MaxCols)}
StrayRows == {PyNone, PyNum("1")}
RECURSIVE CellCount(_, _)
\* the cells of rows[i..]: a stray row counts as one cell
CellCount(rows, i) ==
    IF i > Len(rows) THEN 0
    ELSE (IF isinstance_list(rows[i]) THEN Len(rows[i].items) ELSE 1) + CellCount(rows, i + 1)
\* a two-by-two table like the one in the docstring of create_table_with_data
ExampleTable ==
    PyList(<<PyList(<<PyStr(<<"a">>), PyStr(<<"b">>)>>),
             PyList(<<PyStr(<<"b">>), PyStr(<<"a">>)>>)>>)
RowLists ==
    {PyList(t) : t \in {x \in SeqsUpTo(ListRows \cup StrayRows, MaxRows) :
                            CellCount(x, 1) <= MaxCells}}
        \cup {ExampleTable}
Scalars == {PyStr(<<"a">>), PyNone, PyNum("1"), PyTrue}
JsonValues == RowLists \cup Scalars

\* JSON texts: the encodings of JsonValues, texts the decoder rejects
\* (a truncated text, a single-quoted string, trailing data) and a text
\* nested deeper than the decoder can recurse
WellFormed == {PyStr(dumps(v)) : v \in JsonValues}
Truncated ==
    {PyStr(SubSeq(dumps(v), 1, Len(dumps(v)) - 1)) :
        v \in {x \in RowLists : Len(x.items) <= 1}}
Rejected ==
    Truncated \cup {PyStr(<<"[", "[", "'a'", "]", "]">>), PyStr(<<"[", "]", "]">>)}
TooDeep == {PyStr([i \in 1..(RecursionLimit + 1) |-> "["])}
JsonTexts == WellFormed \cup Rejected \cup TooDeep
\* the data argument: a JSON text, the empty string or None
DataArgs == JsonTexts \cup {PyStr(<<>>), PyNone}
\* the data_list argument: a list of rows, None, or a number passed by mistake
DataLists == RowLists \cup {PyNone, PyNum("1")}

(* ------------------------------- state --------------------------------- *)
VARIABLES
    hwp_controller,  \* self.hwp_controller
    pc,              \* "idle": no call in progress; "returned": a call has ended
    op,              \* the function last called
    args,            \* its arguments: [ints, vals]
    trace,           \* the calls it made, in order
    result           \* how it ended: [kind, val, exc]

vars == <<hwp_controller, pc, op, args, trace, result>>

NoArgs == [ints |-> <<>>, vals |-> <<>>]
NoResult == [kind |-> "none", val |-> PyNone, exc |-> ""]

\* HwpTableTools(hwp_controller=None)
Init ==
    /\ hwp_controller \in Controllers
    /\ pc = "idle"
    /\ op = ""
    /\ args = NoArgs
    /\ trace = <<>>
    /\ result = NoResult

\* a call that forgets the controller when it ends with an "Error: " result
Run_dropping_controller_on_error(name, a, r) ==
    /\ pc' = "returned"
    /\ op' = name
    /\ args' = a
    /\ trace' = r.trace
    /\ result' = r.result
    /\ hwp_controller' =
           IF r.result.val.t = "str" /\ Len(r.result.val.s) >= 1 /\ r.result.val.s[1] = "Error: "
           THEN PyNone ELSE hwp_controller

\* a call of function name with arguments a that ran as r (the caller is idle)
Run(name, a, r) ==
    /\ pc' = "returned"
    /\ op' = name
    /\ args' = a
    /\ trace' = r.trace
    /\ result' = r.result
    /\ UNCHANGED hwp_controller

set_controller ==
    /\ pc = "idle"
    /\ \E c \in Controllers : hwp_controller' = c
       /\ UNCHANGED <<pc, op, args, trace, result>>

InsertTable ==
    /\ pc = "idle"
    /\ \E rows \in Index, cols \in Index, out \in BoolOutcomes :
           Run("insert_table", [ints |-> <<rows, cols>>, vals |-> <<>>],
               insert_table(hwp_controller, rows, cols, out))

SetCellText ==
    /\ pc = "idle"
    /\ \E row \in Index, col \in Index, text \in Texts, out \in BoolOutcomes :
           Run("set_cell_text", [ints |-> <<row, col>>, vals |-> <<text>>],
               set_cell_text(hwp_controller, row, col, text, out))

MergeCells ==
    /\ pc = "idle"
    /\ \E sr \in Index, sc \in Index, er \in Index, ec \in Index, out \in BoolOutcomes :
           Run("merge_cells", [ints |-> <<sr, sc, er, ec>>, vals |-> <<>>],
               merge_cells(hwp_controller, sr, sc, er, ec, out))

GetCellText ==
    /\ pc = "idle"
    /\ \E row \in Index, col \in Index, out \in TextOutcomes :
           Run("get_cell_text", [ints |-> <<row, col>>, vals |-> <<>>],
               get_cell_text(hwp_controller, row, col, out))

CreateTableWithData ==
    /\ pc = "idle"
    /\ \E size \in Positions, data \in DataArgs, has_header \in Flags,
          out1 \in BoolOutcomes, out2 \in BoolOutcomes :
           Run("create_table_with_data",
               [ints |-> size, vals |-> <<data, has_header>>],
               create_table_with_data(hwp_controller, size[1], size[2], data, has_header,
                                      out1, out2))

FillTableWithData ==
    /\ pc = "idle"
    /\ \E data_list \in DataLists, start \in Positions, has_header \in Flags,
          out \in BoolOutcomes :
           Run("fill_table_with_data",
               [ints |-> start, vals |-> <<data_list, has_header>>],
               fill_table_with_data(hwp_controller, data_list, start[1], start[2],
                                    has_header, out))

InsertLeftColumn ==
    /\ pc = "idle"
    /\ \E out \in BoolOutcomes :
           Run("insert_left_column", NoArgs, insert_left_column(hwp_controller, out))
InsertRightColumn ==
    /\ pc = "idle"
    /\ \E out \in BoolOutcomes :
           Run("insert_right_column", NoArgs, insert_right_column(hwp_controller, out))
InsertUpperRow ==
    /\ pc = "idle"
    /\ \E out \in BoolOutcomes :
           Run("insert_upper_row", NoArgs, insert_upper_row(hwp_controller, out))
InsertLowerRow ==
    /\ pc = "idle"
    /\ \E out \in BoolOutcomes :
           Run("insert_lower_row", NoArgs, insert_lower_row(hwp_controller, out))
MoveToLeftCell ==
    /\ pc = "idle"
    /\ \E out \in BoolOutcomes :
           Run("move_to_left_cell", NoArgs, move_to_left_cell(hwp_controller, out))
MoveToRightCell ==
    /\ pc = "idle"
    /\ \E out \in BoolOutcomes :
           Run("move_to_right_cell", NoArgs, move_to_right_cell(hwp_controller, out))
MoveToUpperCell ==
    /\ pc = "idle"
    /\ \E out \in BoolOutcomes :
           Run("move_to_upper_cell", NoArgs, move_to_upper_cell(hwp_controller, out))
MoveToLowerCell ==
    /\ pc = "idle"
    /\ \E out \in BoolOutcomes :
           Run("move_to_lower_cell", NoArgs, move_to_lower_cell(hwp_controller, out))
MergeTables ==
    /\ pc = "idle"
    /\ \E out \in BoolOutcomes :
           Run("merge_tables", NoArgs, merge_tables(hwp_controller, out))

ParseTableData ==
    /\ pc = "idle"
    /\ \E data_str \in DataArgs :
           Run("parse_table_data", [ints |-> <<>>, vals |-> <<data_str>>],
               parse_table_data(data_str))

\* the caller has the result and is ready for its next call
Return ==
    /\ pc = "returned"
    /\ pc' = "idle"
    /\ op' = ""
    /\ args' = NoArgs
    /\ trace' = <<>>
    /\ result' = NoResult
    /\ UNCHANGED hwp_controller

Next ==
    \/ set_controller
    \/ InsertTable
    \/ SetCellText
    \/ MergeCells
    \/ GetCellText
    \/ CreateTableWithData
    \/ FillTableWithData
    \/ InsertLeftColumn
    \/ InsertRightColumn
    \/ InsertUpperRow
    \/ InsertLowerRow
    \/ MoveToLeftCell
    \/ MoveToRightCell
    \/ MoveToUpperCell
    \/ MoveToLowerCell
    \/ MergeTables
    \/ ParseTableData
    \/ Return

Spec == Init /\ [][Next]_vars

TypeOK ==
    /\ hwp_controller \in Controllers
    /\ pc \in {"idle", "returned"}
    /\ result.kind \in {"none", "return", "raise"}

(* ------------------------ vocabulary of the claims --------------------- *)
PublicOps ==
    {"insert_table", "set_cell_text", "merge_cells", "get_cell_text",
     "create_table_with_data", "fill_table_with_data",
     "insert_left_column", "insert_right_column", "insert_upper_row",
     "insert_lower_row", "move_to_left_cell", "move_to_right_cell",
     "move_to_upper_cell", "move_to_lower_cell", "merge_tables"}

Returned == pc = "returned"
\* the calls of the last operation that went to a controller
ControllerCalls == SelectSeq(trace, LAMBDA e : e.target # JsonLib)
\* the positions of trace that call method m of a controller
CallsOf(m) == {k \in 1..Len(trace) : trace[k].target # JsonLib /\ trace[k].method = m}
\* the positions of trace that call json.loads
Decodes == {k \in 1..Len(trace) : trace[k].target = JsonLib}

IsStr(v) == v.t = "str"
StartsWith(v, frag) == IsStr(v) /\ Len(v.s) >= 1 /\ v.s[1] = frag
Contains(v, frag) == IsStr(v) /\ \E i \in 1..Len(v.s) : v.s[i] = frag

\* a controller call that returned a false value / that raised
ReturnedFalse(e) == e.out.kind = "return" /\ ~truthy(e.out.val)
Raised(e) == e.out.kind = "raise"

(* ---------------------------------- C1 --------------------------------- *)
\* C1: with no controller set, every public operation returns (never raises)
\* a string containing 'not set' and calls no controller method, whatever
\* its arguments.
C1_NotSetWithoutController ==
    (Returned /\ op \in PublicOps /\ hwp_controller = PyNone) =>
        /\ result.kind = "return"
        /\ Contains(result.val, "not set")
        /\ ControllerCalls = <<>>

\* create_table_with_data was called with a JSON text while no controller was set
C1_Witness ==
    /\ Returned
    /\ op = "create_table_with_data"
    /\ hwp_controller = PyNone
    /\ truthy(args.vals[1])
    /\ result.val = PyStr(NotSetMsg)
    /\ trace = <<>>

(* ---------------------------------- C2 --------------------------------- *)
\* the operation did not succeed: no controller, a controller call returned
\* a false value or raised, or the supplied data was rejected
DataRejected ==
    \/ /\ op = "create_table_with_data"
       /\ truthy(args.vals[1])
       /\ \E k \in CallsOf("insert_table") : ~Raised(trace[k]) /\ ~ReturnedFalse(trace[k])
       /\ CallsOf("fill_table_with_data") = {}
    \/ /\ op = "fill_table_with_data"
       /\ truthy(hwp_controller)
       /\ CallsOf("fill_table_with_data") = {}
NonSuccess ==
    \/ ~truthy(hwp_controller)
    \/ \E k \in 1..Len(trace) :
           /\ trace[k].target # JsonLib
           /\ \/ Raised(trace[k])
              \/ trace[k].method # "get_table_cell_text" /\ ReturnedFalse(trace[k])
    \/ DataRejected

\* C2 as stated: every non-success outcome of every public operation is a
\* string that begins with "Error: ".
C2_FailureIsErrorPrefixed ==
    (Returned /\ op \in PublicOps /\ NonSuccess) =>
        result.kind = "return" /\ StartsWith(result.val, "Error: ")

\* the controller methods whose false return is reported without the prefix
UnprefixedFalse ==
    {"fill_table_cell", "merge_table_cells", "fill_table_with_data", "run_action"}

\* C2 amended: every public operation returns a string.  It begins with
\* "Error: " when no controller is set, when controller.insert_table returns
\* a false value, when fill_table_with_data rejects its data_list, and when a
\* controller method raises anywhere but in the fill step of
\* create_table_with_data.  When fill_table_cell, merge_table_cells,
\* fill_table_with_data or run_action returns a false value, when
\* create_table_with_data rejects its data, and when its fill step raises,
\* the string is a failure message that does not begin with "Error: ".
C2_FailureMessages ==
    (Returned /\ op \in PublicOps) =>
        /\ result.kind = "return"
        /\ IsStr(result.val)
        /\ ~truthy(hwp_controller) => StartsWith(result.val, "Error: ")
        /\ \A k \in 1..Len(trace) :
               trace[k].target # JsonLib =>
                   /\ (trace[k].method = "insert_table" /\ ReturnedFalse(trace[k]))
                          => StartsWith(result.val, "Error: ")
                   /\ (Raised(trace[k]) /\ ~(op = "create_table_with_data"
                                              /\ trace[k].method = "fill_table_with_data"))
                          => StartsWith(result.val, "Error: ")
                   /\ (trace[k].method \in UnprefixedFalse /\ ReturnedFalse(trace[k]))
                          => ~StartsWith(result.val, "Error: ")
                   /\ (Raised(trace[k]) /\ op = "create_table_with_data"
                                        /\ trace[k].method = "fill_table_with_data")
                          => ~StartsWith(result.val, "Error: ")
        /\ (DataRejected /\ op = "fill_table_with_data") => StartsWith(result.val, "Error: ")
        /\ (DataRejected /\ op = "create_table_with_data") => ~StartsWith(result.val, "Error: ")

\* set_cell_text was told False by the controller and answered without the prefix
C2_Witness ==
    /\ Returned
    /\ op = "set_cell_text"
    /\ Len(trace) = 1
    /\ ReturnedFalse(trace[1])
    /\ IsStr(result.val)
    /\ ~StartsWith(result.val, "Error: ")

(* ---------------------------------- C3 --------------------------------- *)
\* C3: no exception escapes: every public operation ends by returning a
\* string and parse_table_data ends by returning a sequence, whatever the
\* controller or the JSON decoder raised.
C3_NoExceptionEscapes ==
    Returned =>
        /\ result.kind = "return"
        /\ op \in PublicOps => IsStr(result.val)
        /\ op = "parse_table_data" => result.val.t = "list"

(* ---------------------------------- C4 --------------------------------- *)
\* what json.loads makes of the argument of the last call of parse_table_data
Decoded == json_loads(args.vals[1])
HasStrayRow(v) == \E i \in 1..Len(v.items) : ~isinstance_list(v.items[i])

\* C4 as stated: parse_table_data returns an empty sequence for malformed
\* JSON, for a decoded value that is not a list, and for a list with an
\* element that is not a list.
C4_EmptyOnWrongShape ==
    (/\ Returned
     /\ op = "parse_table_data"
     /\ \/ Decoded.exc = "JSONDecodeError"
        \/ Decoded.exc = "" /\ ~isinstance_list(Decoded.val)
        \/ Decoded.exc = "" /\ isinstance_list(Decoded.val) /\ HasStrayRow(Decoded.val))
    => result = [kind |-> "return", val |-> PyList(<<>>), exc |-> ""]

\* C4 amended: parse_table_data returns an empty sequence for every input
\* the decoder rejects with JSONDecodeError and for every decoded value that
\* is not a list.  A decoded list is never rejected for its elements: the
\* result has one row per element, and an element that is not a list becomes
\* the one-cell row [str(element)].
C4_EmptyOnlyWhenNotAList ==
    (Returned /\ op = "parse_table_data") =>
        /\ (Decoded.exc = "JSONDecodeError" \/ (Decoded.exc = "" /\ ~isinstance_list(Decoded.val)))
               => result = [kind |-> "return", val |-> PyList(<<>>), exc |-> ""]
        /\ (Decoded.exc = "" /\ isinstance_list(Decoded.val)) =>
               /\ result.kind = "return"
               /\ isinstance_list(result.val)
               /\ Len(result.val.items) = Len(Decoded.val.items)
               /\ \A i \in 1..Len(Decoded.val.items) :
                      ~isinstance_list(Decoded.val.items[i]) =>
                          result.val.items[i] = PyList(<<str(Decoded.val.items[i])>>)

\* parse_table_data was given a list with a stray null row and a list row,
\* and returned two rows
C4_Witness ==
    /\ Returned
    /\ op = "parse_table_data"
    /\ args.vals[1] = PyStr(<<"[", "null", ",", "[", "\"a\"", "]", "]">>)
    /\ result.val = PyList(<<PyList(<<PyStr(<<"None">>)>>), PyList(<<PyStr(<<"a">>)>>)>>)

(* ---------------------------------- C5 --------------------------------- *)
\* v is a two-dimensional array of strings
IsArrayOfStrings(v) ==
    /\ isinstance_list(v)
    /\ \A i \in 1..Len(v.items) :
           /\ isinstance_list(v.items[i])
           /\ \A j \in 1..Len(v.items[i].items) : IsStr(v.items[i].items[j])
\* the JSON text encodes the value v
Encodes(text, v) == json_loads(text).exc = "" /\ json_loads(text).val = v /\ text = PyStr(dumps(v))

\* C5: for a JSON text that encodes a two-dimensional array of strings,
\* parse_table_data returns the same rows in the same order, each with the
\* same cells in the same order, every cell equal to the input string.
C5_StringTablePreserved ==
    (/\ Returned
     /\ op = "parse_table_data"
     /\ Encodes(args.vals[1], Decoded.val)
     /\ IsArrayOfStrings(Decoded.val))
    => result = [kind |-> "return", val |-> Decoded.val, exc |-> ""]

\* '[["a","b"],["b","a"]]' was parsed into two rows of two string cells
C5_Witness ==
    /\ Returned
    /\ op = "parse_table_data"
    /\ args.vals[1] = PyStr(<<"[", "[", "\"a\"", ",", "\"b\"", "]", ",",
                              "[", "\"b\"", ",", "\"a\"", "]", "]">>)
    /\ result.val = PyList(<<PyList(<<PyStr(<<"a">>), PyStr(<<"b">>)>>),
                             PyList(<<PyStr(<<"b">>), PyStr(<<"a">>)>>)>>)

(* ---------------------------------- C6 --------------------------------- *)
\* the controller method each forwarding operation calls
ForwardedMethod ==
    [o \in {"insert_table", "set_cell_text", "merge_cells", "get_cell_text",
            "fill_table_with_data"} |->
        CASE o = "insert_table" -> "insert_table"
          [] o = "set_cell_text" -> "fill_table_cell"
          [] o = "merge_cells" -> "merge_table_cells"
          [] o = "get_cell_text" -> "get_table_cell_text"
          [] o = "fill_table_with_data" -> "fill_table_with_data"]

\* C6: with a controller set, insert_table, set_cell_text, merge_cells,
\* get_cell_text and fill_table_with_data (given a non-empty list) make
\* exactly one call, of their own controller method, with the caller's row
\* and column numbers unchanged, also when the method returns False or raises.
C6_OneForwardedCall ==
    (/\ Returned
     /\ op \in DOMAIN ForwardedMethod
     /\ truthy(hwp_controller)
     /\ op = "fill_table_with_data" =>
            (isinstance_list(args.vals[1]) /\ truthy(args.vals[1])))
    =>
        /\ Len(trace) = 1
        /\ trace[1].target = hwp_controller
        /\ trace[1].method = ForwardedMethod[op]
        /\ trace[1].ints = args.ints
        /\ op = "set_cell_text" => trace[1].vals = args.vals
        /\ op = "fill_table_with_data" => trace[1].vals[2] = args.vals[2]

\* merge_cells(2, 1, 1, 2) made its single call although the controller raised
C6_Witness ==
    /\ Returned
    /\ op = "merge_cells"
    /\ args.ints = <<2, 1, 1, 2>>
    /\ Len(trace) = 1
    /\ Raised(trace[1])
    /\ trace[1].ints = <<2, 1, 1, 2>>

(* ---------------------------------- C7 --------------------------------- *)
\* a json.loads call that returned a non-empty list of lists
DecodedTable(e) ==
    /\ e.out.kind = "return"
    /\ isinstance_list(e.out.val)
    /\ Len(e.out.val.items) > 0
    /\ \A i \in 1..Len(e.out.val.items) : isinstance_list(e.out.val.items[i])

\* C7: create_table_with_data with a controller set calls
\* controller.insert_table(rows, cols) exactly once, as its first step, before
\* the data is decoded.  It calls controller.fill_table_with_data at most
\* once, only after insert_table returned a true value and the data decoded
\* to a non-empty list of lists, with start position (1, 1), and as its last
\* step.  When insert_table returns False the result is "Error: Failed to
\* create table" and nothing else is called.  No other controller method is
\* called: a table that was inserted is not undone.
C7_InsertThenFill ==
    (Returned /\ op = "create_table_with_data" /\ truthy(hwp_controller)) =>
        /\ CallsOf("insert_table") = {1}
        /\ trace[1].target = hwp_controller
        /\ trace[1].ints = args.ints
        /\ \A k \in Decodes : k > 1
        /\ Cardinality(CallsOf("fill_table_with_data")) <= 1
        /\ \A k \in CallsOf("fill_table_with_data") :
               /\ trace[1].out.kind = "return" /\ truthy(trace[1].out.val)
               /\ \E j \in Decodes : j < k /\ DecodedTable(trace[j])
               /\ trace[k].target = hwp_controller
               /\ trace[k].ints = <<1, 1>>
               /\ k = Len(trace)
        /\ \A k \in 1..Len(trace) :
               trace[k].target # JsonLib =>
                   trace[k].method \in {"insert_table", "fill_table_with_data"}
        /\ ReturnedFalse(trace[1]) =>
               /\ result.val = PyStr(<<"Error: ", "Failed to create table">>)
               /\ Len(trace) = 1

\* the table was inserted, the data was a list with a stray row, and the
\* operation stopped after decoding it
C7_Witness ==
    /\ Returned
    /\ op = "create_table_with_data"
    /\ truthy(hwp_controller)
    /\ Len(trace) = 2
    /\ trace[1].method = "insert_table"
    /\ truthy(trace[1].out.val)
    /\ trace[2].target = JsonLib
    /\ trace[2].out.kind = "return"
    /\ ~DecodedTable(trace[2])

(* ---------------------------------- C8 --------------------------------- *)
\* C8: the table create_table_with_data hands to
\* controller.fill_table_with_data equals parse_table_data(payload) and equals
\* the table fill_table_with_data hands to the controller for the decoded
\* list; a null cell becomes the same string on all three paths.
C8_ConversionsAgree ==
    (Returned /\ op = "create_table_with_data") =>
        \A k \in CallsOf("fill_table_with_data") :
            /\ trace[k].vals[1] = parse_table_data(args.vals[1]).result.val
            /\ trace[k].vals[1] =
                   fill_table_with_data(hwp_controller, Decoded.val, 1, 1, args.vals[2],
                                        trace[k].out).trace[1].vals[1]

(* ---------------------------------- C9 --------------------------------- *)
\* a non-empty list of lists of strs
IsStringTable(v) ==
    /\ isinstance_list(v)
    /\ Len(v.items) > 0
    /\ \A i \in 1..Len(v.items) :
           /\ isinstance_list(v.items[i])
           /\ \A j \in 1..Len(v.items[i].items) : IsStr(v.items[i].items[j])

\* C9: every call of controller.fill_table_with_data receives a non-empty
\* list of lists of strings.  With a controller set, fill_table_with_data
\* given empty or missing data returns "Error: Data is required" and calls
\* nothing; create_table_with_data given empty or missing data, or data that
\* does not decode to a list of lists, does not call fill_table_with_data.
C9_FillReceivesStringTable ==
    Returned =>
        /\ \A k \in CallsOf("fill_table_with_data") : IsStringTable(trace[k].vals[1])
        /\ (op = "fill_table_with_data" /\ truthy(hwp_controller) /\ ~truthy(args.vals[1])) =>
               /\ result.val = PyStr(<<"Error: ", "Data is required">>)
               /\ trace = <<>>
        /\ (op = "create_table_with_data" /\ ~truthy(args.vals[1])) =>
               CallsOf("fill_table_with_data") = {}
        /\ (/\ op = "create_table_with_data"
            /\ \/ Decoded.exc # ""
               \/ ~isinstance_list(Decoded.val)
               \/ HasStrayRow(Decoded.val)) =>
               CallsOf("fill_table_with_data") = {}

\* create_table_with_data forwarded a decoded row with a null cell, as strings
C9_Witness ==
    /\ Returned
    /\ op = "create_table_with_data"
    /\ args.vals[1] = PyStr(<<"[", "[", "null", ",", "\"a\"", "]", "]">>)
    /\ CallsOf("fill_table_with_data") = {3}
    /\ IsStringTable(trace[3].vals[1])
    /\ Len(trace[3].vals[1].items[1].items) = 2

(* ---------------------------------- C10 -------------------------------- *)
\* the action name and the success message of each named-action operation
ActionName ==
    [o \in {"insert_left_column", "insert_right_column", "insert_upper_row",
            "insert_lower_row", "move_to_left_cell", "move_to_right_cell",
            "move_to_upper_cell", "move_to_lower_cell", "merge_tables"} |->
        CASE o = "insert_left_column" -> "TableInsertLeftColumn"
          [] o = "insert_right_column" -> "TableInsertRightColumn"
          [] o = "insert_upper_row" -> "TableInsertUpperRow"
          [] o = "insert_lower_row" -> "TableInsertLowerRow"
          [] o = "move_to_left_cell" -> "TableLeftCell"
          [] o = "move_to_right_cell" -> "TableRightCell"
          [] o = "move_to_upper_cell" -> "TableUpperCell"
          [] o = "move_to_lower_cell" -> "TableLowerCell"
          [] o = "merge_tables" -> "TableMergeTable"]
DoneMessage ==
    [o \in DOMAIN ActionName |->
        CASE o = "insert_left_column" -> "left column insert done"
          [] o = "insert_right_column" -> "right column insert done"
          [] o = "insert_upper_row" -> "upper row insert done"
          [] o = "insert_lower_row" -> "lower row insert done"
          [] o = "move_to_left_cell" -> "move to left cell done"
          [] o = "move_to_right_cell" -> "move to right cell done"
          [] o = "move_to_upper_cell" -> "move to upper cell done"
          [] o = "move_to_lower_cell" -> "move to lower cell done"
          [] o = "merge_tables" -> "table merge done"]

\* C10: with a controller set, each named-action operation calls
\* controller.run_action exactly once, with its own action name, and calls
\* nothing else; it returns its success message exactly when run_action
\* returned a true value.
C10_OneNamedAction ==
    (Returned /\ op \in DOMAIN ActionName /\ truthy(hwp_controller)) =>
        /\ Len(trace) = 1
        /\ trace[1].target = hwp_controller
        /\ trace[1].method = "run_action"
        /\ trace[1].vals = <<PyStr(<<ActionName[op]>>)>>
        /\ (result.val = PyStr(<<DoneMessage[op]>>))
               <=> (trace[1].out.kind = "return" /\ truthy(trace[1].out.val))

\* move_to_left_cell fired TableLeftCell, was told False, and reported failure
C10_Witness ==
    /\ Returned
    /\ op = "move_to_left_cell"
    /\ Len(trace) = 1
    /\ trace[1].vals = <<PyStr(<<"TableLeftCell">>)>>
    /\ ReturnedFalse(trace[1])
    /\ result.val # PyStr(<<"move to left cell done">>)

(* ---------------------------------- C11 -------------------------------- *)
\* a step that is a call of a table operation or of parse_table_data
IsCall == pc = "idle" /\ pc' = "returned"
\* a step that is set_controller: the caller stays idle and nothing else moves
IsSetController == pc = "idle" /\ pc' = "idle" /\ UNCHANGED <<op, args, trace, result>>

\* C11: the controller reference is changed by set_controller only.  A call
\* of any operation, whatever its outcome, leaves the reference as it was,
\* makes every controller call on the controller that was set when it was
\* called, and returns the 'not set' error when that reference is None.
C11_ControllerSetOnlyBySetController ==
    [][/\ hwp_controller' # hwp_controller => IsSetController
       /\ IsCall =>
              /\ hwp_controller' = hwp_controller
              /\ \A k \in 1..Len(trace') :
                     trace'[k].target # JsonLib => trace'[k].target = hwp_controller
              /\ (hwp_controller = PyNone /\ op' \in PublicOps) =>
                     /\ Contains(result'.val, "not set")
                     /\ trace' = <<>>]_vars

\* create_table_with_data ran on ControllerB, inserted the table, the fill
\* raised, and the reference is still ControllerB
C11_Witness ==
    /\ Returned
    /\ op = "create_table_with_data"
    /\ hwp_controller = ControllerB
    /\ Len(trace) = 3
    /\ trace[1].target = ControllerB
    /\ trace[3].target = ControllerB
    /\ Raised(trace[3])
====
